---- MODULE Spec2Model ----
(***************************************************************************)
(* Book management service: AuthorsService and BooksService over a         *)
(* table-oriented datastore client (authors, books).                       *)
(*                                                                         *)
(* Every handler is a sequence of awaited datastore round trips.  Step     *)
(* executes the round trip a request is waiting at together with the       *)
(* synchronous code up to the next await; Run executes a request to its    *)
(* end.  The sequential specification Spec applies Run (one request at a   *)
(* time); SpecConc interleaves the Steps of several requests.              *)
(*                                                                         *)
(* The datastore is the external collaborator: two tables without          *)
(* uniqueness or foreign-key enforcement, server-generated ids and         *)
(* timestamps, .single() answering data only for exactly one matching row. *)
(* Service inputs are the DTO types of the source: every text field is a   *)
(* string (the empty string included) or undefined.                        *)
(***************************************************************************)
EXTENDS Integers, Sequences, FiniteSets, TLC

VARIABLES authors, books, nextAuthor, nextBook, clock, reqs, cfg

vars == <<authors, books, nextAuthor, nextBook, clock, reqs, cfg>>

(***************************************************************************)
(* Bounds of the explored behaviours.                                      *)
(***************************************************************************)
MaxAuthors == 2
MaxBooks == 2
MaxClock == 3
MaxSupplied == 1
IsbnMaxBooks == 3
IsbnMaxClock == 5
ConcMaxClock == 3
ListMaxAuthors == 2
ListMaxBooks == 3
ListMaxClock == 5
OrderMaxBooks == 2
OrderMaxClock == 4
RaceMaxBooks == 2
RaceMaxClock == 4
FaultMaxBooks == 2
FaultMaxClock == 3
FaultMaxTrip == 4

(***************************************************************************)
(* Values.                                                                 *)
(***************************************************************************)
Undef == "undefined"
Null == "null"
Empty == ""

\* JavaScript truthiness of a string-or-undefined value: if (x) ...
Truthy(v) == v \notin {Undef, Null, Empty}

\* An optional object (row, entity): <<>> when absent, <<x>> when present.
None == <<>>
Some(x) == <<x>>
IsSome(o) == Len(o) = 1
Get(o) == o[1]

(***************************************************************************)
(* Identifiers.  An id is named by a token; UuidText gives its characters. *)
(***************************************************************************)
UuidText ==
       "a1" :> <<"0","a","0","0","0","0","0","0","-","0","0","0","0","-","4","0","0","0","-","8","0","0","0","-","0","0","0","0","0","0","0","0","0","0","0","1">>
    @@ "a2" :> <<"0","a","0","0","0","0","0","0","-","0","0","0","0","-","4","0","0","0","-","8","0","0","0","-","0","0","0","0","0","0","0","0","0","0","0","2">>
    @@ "a3" :> <<"0","a","0","0","0","0","0","0","-","0","0","0","0","-","4","0","0","0","-","8","0","0","0","-","0","0","0","0","0","0","0","0","0","0","0","3">>
    @@ "a4" :> <<"0","a","0","0","0","0","0","0","-","0","0","0","0","-","4","0","0","0","-","8","0","0","0","-","0","0","0","0","0","0","0","0","0","0","0","4">>
    @@ "b1" :> <<"0","b","0","0","0","0","0","0","-","0","0","0","0","-","4","0","0","0","-","9","0","0","0","-","0","0","0","0","0","0","0","0","0","0","0","1">>
    @@ "b2" :> <<"0","b","0","0","0","0","0","0","-","0","0","0","0","-","4","0","0","0","-","9","0","0","0","-","0","0","0","0","0","0","0","0","0","0","0","2">>
    @@ "b3" :> <<"0","b","0","0","0","0","0","0","-","0","0","0","0","-","4","0","0","0","-","9","0","0","0","-","0","0","0","0","0","0","0","0","0","0","0","3">>
    @@ "b4" :> <<"0","b","0","0","0","0","0","0","-","0","0","0","0","-","4","0","0","0","-","9","0","0","0","-","0","0","0","0","0","0","0","0","0","0","0","4">>
    @@ "b5" :> <<"0","b","0","0","0","0","0","0","-","0","0","0","0","-","4","0","0","0","-","9","0","0","0","-","0","0","0","0","0","0","0","0","0","0","0","5">>
    @@ "ghost" :> <<"1","2","3","e","4","5","6","7","-","e","8","9","b","-","1","2","d","3","-","a","4","5","6","-","4","2","6","6","1","4","1","7","4","0","0","0">>
    @@ "nil" :> <<"0","0","0","0","0","0","0","0","-","0","0","0","0","-","0","0","0","0","-","0","0","0","0","-","0","0","0","0","0","0","0","0","0","0","0","0">>
    @@ "bad" :> <<"i","n","v","a","l","i","d","-","u","u","i","d">>
    @@ "" :> <<>>

\* Ids the datastore generates, in order of generation (never reused).
AuthorIdPool == <<"a1", "a2", "a3", "a4">>
BookIdPool == <<"b1", "b2", "b3", "b4", "b5">>

\* A well-formed UUID no row ever has, and two malformed ones: 'invalid-uuid'
\* and the nil UUID (its version and variant digits are 0).
GhostId == "ghost"
BadId == "bad"
NilId == "nil"

HexDigits == {"0","1","2","3","4","5","6","7","8","9",
              "a","b","c","d","e","f","A","B","C","D","E","F"}

\* /^[0-9a-f]{8}-[0-9a-f]{4}-[1-5][0-9a-f]{3}-[89ab][0-9a-f]{3}-[0-9a-f]{12}$/i
UuidRegexTest(s) ==
    /\ Len(s) = 36
    /\ \A i \in 1..36 :
          IF i \in {9, 14, 19, 24} THEN s[i] = "-"
          ELSE IF i = 15 THEN s[i] \in {"1","2","3","4","5"}
          ELSE IF i = 20 THEN s[i] \in {"8","9","a","b","A","B"}
          ELSE s[i] \in HexDigits

\* validateUUID with a pattern that accepts any digit as version and variant.
validateUUIDAnyVersion(id) ==
    LET s == UuidText[id]
    IN /\ Len(s) = 36
       /\ \A i \in 1..36 :
             IF i \in {9, 14, 19, 24} THEN s[i] = "-" ELSE s[i] \in HexDigits

\* validateUUID(id): TRUE when it returns, FALSE when it throws
\* BadRequestException('Invalid UUID format').
validateUUID(id) == UuidRegexTest(UuidText[id])

(***************************************************************************)
(* new Date(s) for the calendar dates of the DTOs: the instant, named by   *)
(* its ISO form.                                                           *)
(***************************************************************************)
CalendarDates == {"1990-01-01", "2023-01-01"}

NewDate(s) ==
    CASE s = "1990-01-01" -> "1990-01-01T00:00:00.000Z"
      [] s = "2023-01-01" -> "2023-01-01T00:00:00.000Z"
      [] OTHER -> "Invalid Date"

(***************************************************************************)
(* Datastore.                                                              *)
(***************************************************************************)
Db == [authors |-> authors, books |-> books, nextAuthor |-> nextAuthor,
       nextBook |-> nextBook, clock |-> clock]

\* A key left undefined in an inserted object is not sent; the column is null.
ColumnValue(v) == IF v = Undef THEN Null ELSE v

\* .single(): data only when exactly one row matches and no error is reported.
Single(rows, err) ==
    IF err \/ Cardinality(rows) # 1
    THEN [data |-> None, error |-> TRUE]
    ELSE [data |-> Some(CHOOSE x \in rows : TRUE), error |-> FALSE]

\* .update(data).eq('id', id): the columns of data, and updated_at, change.
ApplyUpdate(row, data, now) ==
    [c \in DOMAIN row |->
        IF c \in DOMAIN data THEN data[c]
        ELSE IF c = "updated_at" THEN now
        ELSE row[c]]

\* .order('created_at', { ascending: false }): the rows, newest first.
RECURSIVE OrderDesc(_)
OrderDesc(rows) ==
    IF rows = {} THEN <<>>
    ELSE LET top == CHOOSE x \in rows :
                        \A y \in rows : y.created_at <= x.created_at
         IN <<top>> \o OrderDesc(rows \ {top})

\* A range request that reports the number of rows of the window as the count.
RangeQueryCountsWindow(rows, from, to, err) ==
    IF err \/ from < 0 \/ to - from + 1 < 0
    THEN [data |-> <<>>, count |-> 0, error |-> TRUE]
    ELSE LET all == OrderDesc(rows)
             last == IF to + 1 < Len(all) THEN to + 1 ELSE Len(all)
             n == IF last > from THEN last - from ELSE 0
         IN [data |-> [i \in 1..n |-> all[from + i]],
             count |-> n,
             error |-> FALSE]

\* select(..., { count: 'exact' }) ... .range(from, to).order('created_at',
\* { ascending: false }) awaited: the rows at positions from..to of the
\* ordered matching rows, and the number of all matching rows.  A negative
\* offset or window size is an error of the datastore.
RangeQuery(rows, from, to, err) ==
    IF err \/ from < 0 \/ to - from + 1 < 0
    THEN [data |-> <<>>, count |-> 0, error |-> TRUE]
    ELSE LET all == OrderDesc(rows)
             last == IF to + 1 < Len(all) THEN to + 1 ELSE Len(all)
             n == IF last > from THEN last - from ELSE 0
         IN [data |-> [i \in 1..n |-> all[from + i]],
             count |-> Cardinality(rows),
             error |-> FALSE]

(***************************************************************************)
(* Text and numbers of the list queries.  Chars gives the characters of a  *)
(* text value; a JavaScript number is [nan, inf, n]: NaN, an infinity, or  *)
(* the integer n.                                                          *)
(***************************************************************************)
Chars ==
       "undefined" :> <<"u","n","d","e","f","i","n","e","d">>
    @@ "" :> <<>>
    @@ "0" :> <<"0">>
    @@ "1" :> <<"1">>
    @@ "2" :> <<"2">>
    @@ "3" :> <<"3">>
    @@ "10" :> <<"1","0">>
    @@ "-1" :> <<"-","1">>
    @@ "abc" :> <<"a","b","c">>
    @@ "Ann" :> <<"A","n","n">>
    @@ "Bob" :> <<"B","o","b">>
    @@ "Lee" :> <<"L","e","e">>
    @@ "Dune" :> <<"D","u","n","e">>
    @@ "Emma" :> <<"E","m","m","a">>
    @@ "epic" :> <<"e","p","i","c">>
    @@ "N" :> <<"N">>
    @@ "E" :> <<"E">>
    @@ "null" :> <<"n","u","l","l">>

UpperCase == <<"A","B","C","D","E","F","G","H","I","J","K","L","M",
               "N","O","P","Q","R","S","T","U","V","W","X","Y","Z">>
LowerCase == <<"a","b","c","d","e","f","g","h","i","j","k","l","m",
               "n","o","p","q","r","s","t","u","v","w","x","y","z">>

LowerChar(c) ==
    IF \E i \in 1..26 : UpperCase[i] = c
    THEN LowerCase[CHOOSE i \in 1..26 : UpperCase[i] = c]
    ELSE c

ToLower(s) == [i \in 1..Len(s) |-> LowerChar(s[i])]

\* column ILIKE '%v%': v occurs in the column's text, whatever the case; a
\* null column matches nothing.
Ilike(column, v) ==
    /\ column # Null
    /\ LET p == ToLower(Chars[v])
           t == ToLower(Chars[column])
       IN \E i \in 0..(Len(t) - Len(p)) :
             \A k \in 1..Len(p) : t[i + k] = p[k]

Num(n) == [nan |-> FALSE, inf |-> FALSE, n |-> n]
NaN == [nan |-> TRUE, inf |-> FALSE, n |-> 0]
Infinity == [nan |-> FALSE, inf |-> TRUE, n |-> 0]
IsFinite(x) == ~x.nan /\ ~x.inf

DigitValue == "0" :> 0 @@ "1" :> 1 @@ "2" :> 2 @@ "3" :> 3 @@ "4" :> 4
           @@ "5" :> 5 @@ "6" :> 6 @@ "7" :> 7 @@ "8" :> 8 @@ "9" :> 9

RECURSIVE DigitsValue(_, _)
DigitsValue(s, k) ==
    IF k = 0 THEN 0 ELSE 10 * DigitsValue(s, k - 1) + DigitValue[s[k]]

\* The number of characters of s, from the first on, that are in set.
LeadingIn(s, set) ==
    CHOOSE k \in 0..Len(s) :
        /\ \A i \in 1..k : s[i] \in set
        /\ (k = Len(s) \/ s[k + 1] \notin set)

\* parseInt on the characters after the sign: the longest run of decimal
\* digits read as a number, NaN when there is no digit.
ParseDigits(d, k, negative) ==
    IF k = 0 THEN NaN
    ELSE IF negative THEN Num(0 - DigitsValue(d, k))
    ELSE Num(DigitsValue(d, k))

\* parseInt on the characters after the leading blanks: an optional sign,
\* then the digits.
ParseSigned(t) ==
    IF Len(t) > 0 /\ t[1] \in {"+", "-"}
    THEN ParseDigits(Tail(t), LeadingIn(Tail(t), DOMAIN DigitValue),
                     t[1] = "-")
    ELSE ParseDigits(t, LeadingIn(t, DOMAIN DigitValue), FALSE)

\* parseInt of a text with the characters raw: leading blanks skipped, an
\* optional sign, then the longest run of decimal digits; NaN when there is
\* no digit.
ParseChars(raw) ==
    ParseSigned(SubSeq(raw, LeadingIn(raw, {" "}) + 1, Len(raw)))

\* parseInt(v) for the texts of Chars (undefined is read as 'undefined').
ParseIntOfText == [v \in DOMAIN Chars |-> ParseChars(Chars[v])]

ParseInt(v) == ParseIntOfText[v]

\* x || d for a number x: d when x is NaN or 0.
OrNumber(x, d) == IF x.nan \/ (IsFinite(x) /\ x.n = 0) THEN d ELSE x

\* s || d for a string-or-undefined s: d when s is undefined or empty.
OrString(s, d) == IF Truthy(s) THEN s ELSE d

\* Math.ceil rounding down instead of up.
MathFloorDiv(t, l) ==
    IF l.nan THEN NaN
    ELSE IF l.inf THEN Num(0)
    ELSE IF l.n = 0 THEN (IF t = 0 THEN NaN ELSE Infinity)
    ELSE IF l.n > 0 THEN Num(t \div l.n)
    ELSE Num(0 - (t \div (0 - l.n)))

\* Math.ceil(t / l) for an integer t >= 0 and a number l.
MathCeilDiv(t, l) ==
    IF l.nan THEN NaN
    ELSE IF l.inf THEN Num(0)
    ELSE IF l.n = 0 THEN (IF t = 0 THEN NaN ELSE Infinity)
    ELSE IF l.n > 0 THEN Num((t + l.n - 1) \div l.n)
    ELSE Num(0 - (t \div (0 - l.n)))

\* findAll of both services: const page = parseInt(query.page) || 1
FindAllPage(query) == OrNumber(ParseInt(query.page), Num(1)).n

\* findAll of both services: const limit = parseInt(query.limit) || 10
FindAllLimit(query) == OrNumber(ParseInt(query.limit), Num(10)).n

\* An offset that counts pages from 0.
FindAllOffsetFromZero(query) == FindAllPage(query) * FindAllLimit(query)

\* findAll of both services: const offset = (page - 1) * limit
FindAllOffset(query) == (FindAllPage(query) - 1) * FindAllLimit(query)

(***************************************************************************)
(* Requests.  pc names the round trip the request waits at.                *)
(***************************************************************************)
NoDto == [none |-> Undef]

Idle == [op |-> "idle", id |-> Undef, dto |-> NoDto, pc |-> "done",
         status |-> "none", msg |-> "", ret |-> None, trips |-> 0,
         writes |-> 0, errs |-> {}]

NewRequest(op, id, dto) ==
    [op |-> op, id |-> id, dto |-> dto, pc |-> "begin",
     status |-> "pending", msg |-> "", ret |-> None, trips |-> 0,
     writes |-> 0, errs |-> {}]

\* The request, with errs the round trips of it (by number) at which the
\* datastore reports an error.
WithFaults(req, errs) == [req EXCEPT !.errs = errs]

\* throw new <status>(msg) after n further round trips
Throw(r, status, msg, n) ==
    [r EXCEPT !.pc = "done", !.status = status, !.msg = msg,
              !.trips = @ + n]

\* return ret after n further round trips, w of them writes
Return(r, ret, n, w) ==
    [r EXCEPT !.pc = "done", !.status = "OK", !.ret = ret,
              !.trips = @ + n, !.writes = @ + w]

\* continue at the round trip pc after n further round trips
Await(r, pc, n) == [r EXCEPT !.pc = pc, !.trips = @ + n]

BadRequest == "BadRequestException"
NotFound == "NotFoundException"

\* error.message of the datastore: of a fault, of .single() when not exactly
\* one row is returned, and of a range the datastore cannot serve.
FaultMessage == "Database error"
NoRowsMessage == "JSON object requested, multiple (or no) rows returned"
RangeMessage == "Requested range not satisfiable"

\* `Failed to ${what}: ${error.message}`
Failed(what, message) == "Failed to " \o what \o ": " \o message

(***************************************************************************)
(* AuthorsService.                                                         *)
(***************************************************************************)
\* mapToEntity with first_name and last_name exchanged.
AuthorMapToEntitySwapped(data) ==
    [id |-> data.id,
     firstName |-> data.last_name,
     lastName |-> data.first_name,
     bio |-> data.bio,
     birthDate |-> IF Truthy(data.birth_date) THEN NewDate(data.birth_date)
                   ELSE Undef,
     createdAt |-> data.created_at,
     updatedAt |-> data.updated_at]

AuthorMapToEntity(data) ==
    [id |-> data.id,
     firstName |-> data.first_name,
     lastName |-> data.last_name,
     bio |-> data.bio,
     birthDate |-> IF Truthy(data.birth_date) THEN NewDate(data.birth_date)
                   ELSE Undef,
     createdAt |-> data.created_at,
     updatedAt |-> data.updated_at]

\* AuthorsService.create: the insert(...).select().single() round trip.
AuthorsInsert(r, db, err) ==
    IF err
    THEN [r |-> Throw(r, BadRequest,
                     Failed("create author", FaultMessage), 1),
          db |-> db]
    ELSE LET row == [id |-> AuthorIdPool[db.nextAuthor],
                     first_name |-> ColumnValue(r.dto.firstName),
                     last_name |-> ColumnValue(r.dto.lastName),
                     bio |-> ColumnValue(r.dto.bio),
                     birth_date |-> ColumnValue(r.dto.birthDate),
                     created_at |-> db.clock + 1,
                     updated_at |-> db.clock + 1]
         IN [r |-> Return(r, Some(AuthorMapToEntity(row)), 1, 1),
             db |-> [db EXCEPT !.authors = @ \cup {row},
                               !.nextAuthor = @ + 1,
                               !.clock = @ + 1]]

\* AuthorsService.findOne after validateUUID: select('*').eq('id', id).single()
AuthorsLookup(id, db, err) ==
    Single({a \in db.authors : a.id = id}, err)

\* AuthorsService.update: the fields of the partial that are not undefined.
AuthorsUpdateData(dto) ==
    LET cols == {c \in {"first_name", "last_name", "bio", "birth_date"} :
                    CASE c = "first_name" -> dto.firstName # Undef
                      [] c = "last_name" -> dto.lastName # Undef
                      [] c = "bio" -> dto.bio # Undef
                      [] c = "birth_date" -> dto.birthDate # Undef}
    IN [c \in cols |->
            CASE c = "first_name" -> dto.firstName
              [] c = "last_name" -> dto.lastName
              [] c = "bio" -> dto.bio
              [] c = "birth_date" -> dto.birthDate]

\* AuthorsService.update: update(updateData).eq('id', id).select().single()
AuthorsWrite(r, db, err) ==
    LET hit == {a \in db.authors : a.id = r.id}
        data == AuthorsUpdateData(r.dto)
        new == {ApplyUpdate(a, data, db.clock + 1) : a \in hit}
        res == Single(new, err)
    IN IF err
       THEN [r |-> Throw(r, BadRequest,
                        Failed("update author", FaultMessage), 1),
             db |-> db]
       ELSE IF res.error
       THEN [r |-> [Throw(r, BadRequest,
                          Failed("update author", NoRowsMessage), 1)
                        EXCEPT !.writes = @ + 1],
             db |-> db]
       ELSE [r |-> Return(r, Some(AuthorMapToEntity(Get(res.data))), 1, 1),
             db |-> [db EXCEPT !.authors = (@ \ hit) \cup new,
                               !.clock = @ + 1]]

\* remove whose delete request matches no row.
AuthorsDeleteNothing(r, db, err) ==
    IF err
    THEN [r |-> Throw(r, BadRequest,
                     Failed("delete author", FaultMessage), 1),
          db |-> db]
    ELSE [r |-> Return(r, None, 1, 1),
          db |-> [db EXCEPT !.clock = @ + 1]]

\* AuthorsService.remove: delete().eq('id', id)
AuthorsDelete(r, db, err) ==
    IF err
    THEN [r |-> Throw(r, BadRequest,
                     Failed("delete author", FaultMessage), 1),
          db |-> db]
    ELSE [r |-> Return(r, None, 1, 1),
          db |-> [db EXCEPT !.authors = {a \in @ : a.id # r.id},
                            !.clock = @ + 1]]

\* AuthorsService.findAll: the rows the filters of the query select.
AuthorsFilter(query, db) ==
    {a \in db.authors :
        /\ Truthy(query.firstName) => Ilike(a.first_name, query.firstName)
        /\ Truthy(query.lastName) => Ilike(a.last_name, query.lastName)}

\* AuthorsService.findAll: the awaited query and the mapping of its rows.
AuthorsQuery(r, db, err) ==
    LET offset == FindAllOffset(r.dto)
        res == RangeQuery(AuthorsFilter(r.dto, db), offset,
                          offset + FindAllLimit(r.dto) - 1, err)
    IN [r |-> IF res.error
              THEN Throw(r, BadRequest,
                         Failed("fetch authors",
                                IF err THEN FaultMessage ELSE RangeMessage),
                         1)
              ELSE Return(r, Some([data |-> [i \in 1..Len(res.data) |->
                                               AuthorMapToEntity(res.data[i])],
                                   total |-> res.count]), 1, 0),
        db |-> db]

\* The synchronous prefix of an AuthorsService method, up to its first await.
AuthorsBegin(r) ==
    CASE r.op = "authors.create" -> Await(r, "insert", 0)
      [] r.op = "authors.findOne" ->
            IF validateUUID(r.id) THEN Await(r, "lookup", 0)
            ELSE Throw(r, BadRequest, "Invalid UUID format", 0)
      [] r.op = "authors.update" ->
            IF validateUUID(r.id) THEN Await(r, "exists", 0)
            ELSE Throw(r, BadRequest, "Invalid UUID format", 0)
      [] r.op = "authors.remove" ->
            IF validateUUID(r.id) THEN Await(r, "exists", 0)
            ELSE Throw(r, BadRequest, "Invalid UUID format", 0)

\* AuthorsService.findOne: the lookup and the mapping of its row.
AuthorsFindOneLookup(r, db, err) ==
    LET res == AuthorsLookup(r.id, db, err)
    IN [r |-> IF res.error \/ ~IsSome(res.data)
              THEN Throw(r, NotFound, "Author not found", 1)
              ELSE Return(r, Some(AuthorMapToEntity(Get(res.data))), 1, 0),
        db |-> db]

\* AuthorsService.update: await this.findOne(id), then build updateData.
AuthorsUpdateExists(r, db, err) ==
    LET res == AuthorsLookup(r.id, db, err)
    IN [r |-> IF res.error \/ ~IsSome(res.data)
              THEN Throw(r, NotFound, "Author not found", 1)
              ELSE IF DOMAIN AuthorsUpdateData(r.dto) = {}
              THEN Await(r, "reread", 1)
              ELSE Await(r, "write", 1),
        db |-> db]

\* remove that refuses an Author some stored Book refers to.
AuthorsRemoveExistsUnreferenced(r, db, err) ==
    LET res == AuthorsLookup(r.id, db, err)
    IN [r |-> IF ~IsSome(res.data)
              THEN Throw(r, NotFound, "Author not found", 1)
              ELSE IF \E b \in db.books : b.author_id = r.id
              THEN Throw(r, BadRequest,
                         Failed("delete author", FaultMessage), 1)
              ELSE Await(r, "delete", 1),
        db |-> db]

\* AuthorsService.remove: select('id').eq('id', id).single()
AuthorsRemoveExists(r, db, err) ==
    LET res == AuthorsLookup(r.id, db, err)
    IN [r |-> IF ~IsSome(res.data)
              THEN Throw(r, NotFound, "Author not found", 1)
              ELSE Await(r, "delete", 1),
        db |-> db]

\* One round trip of an AuthorsService method and the code up to the next.
AuthorsStep(r, db, err) ==
    CASE r.op = "authors.create" -> AuthorsInsert(r, db, err)
      [] r.op = "authors.findOne" -> AuthorsFindOneLookup(r, db, err)
      [] r.op = "authors.update" /\ r.pc = "exists" ->
            AuthorsUpdateExists(r, db, err)
      [] r.op = "authors.update" /\ r.pc = "reread" ->
            AuthorsFindOneLookup(r, db, err)
      [] r.op = "authors.update" /\ r.pc = "write" -> AuthorsWrite(r, db, err)
      [] r.op = "authors.remove" /\ r.pc = "exists" ->
            AuthorsRemoveExists(r, db, err)
      [] r.op = "authors.remove" /\ r.pc = "delete" -> AuthorsDelete(r, db, err)

(***************************************************************************)
(* BooksService.                                                           *)
(***************************************************************************)
\* The embedded resource authors(...) of a books row: the row of authors
\* whose id is the row's author_id, when there is one.
BooksSelect(row, db) ==
    LET joined == {a \in db.authors : a.id = row.author_id}
    IN [book |-> row,
        authors |-> IF joined = {} THEN None
                    ELSE Some(CHOOSE a \in joined : TRUE)]

BookMapToEntity(data) ==
    [id |-> data.book.id,
     title |-> data.book.title,
     isbn |-> data.book.isbn,
     publishedDate |-> IF Truthy(data.book.published_date)
                       THEN NewDate(data.book.published_date)
                       ELSE Undef,
     genre |-> data.book.genre,
     authorId |-> data.book.author_id,
     author |-> IF IsSome(data.authors)
                THEN Some(AuthorMapToEntity(Get(data.authors)))
                ELSE None,
     createdAt |-> data.book.created_at,
     updatedAt |-> data.book.updated_at]

\* BooksService.findOne after validateUUID: select(join).eq('id', id).single()
BooksLookup(id, db, err) ==
    Single({BooksSelect(b, db) : b \in {x \in db.books : x.id = id}}, err)

\* BooksService.create: select('isbn').eq('isbn', isbn).single()
BooksIsbnLookup(isbn, db, err) ==
    Single({b \in db.books : b.isbn = isbn}, err)

\* BooksService.update: select('id, isbn').eq('isbn', isbn).neq('id', id).single()
BooksOtherIsbnLookup(isbn, id, db, err) ==
    Single({b \in db.books : b.isbn = isbn /\ b.id # id}, err)

\* create that inserts and then reads the Book and its Author again: two
\* round trips.
BooksInsertThenReread(r, db, err) ==
    IF err
    THEN [r |-> Throw(r, BadRequest,
                     Failed("create book", FaultMessage), 1),
          db |-> db]
    ELSE LET row == [id |-> BookIdPool[db.nextBook],
                     title |-> ColumnValue(r.dto.title),
                     isbn |-> ColumnValue(r.dto.isbn),
                     published_date |-> ColumnValue(r.dto.publishedDate),
                     genre |-> ColumnValue(r.dto.genre),
                     author_id |-> ColumnValue(r.dto.authorId),
                     created_at |-> db.clock + 1,
                     updated_at |-> db.clock + 1]
         IN [r |-> Return(r, Some(BookMapToEntity(BooksSelect(row, db))),
                          2, 1),
             db |-> [db EXCEPT !.books = @ \cup {row},
                               !.nextBook = @ + 1,
                               !.clock = @ + 1]]

\* insert into a table with a uniqueness constraint on isbn.
BooksInsertUnique(r, db, err) ==
    IF err \/ \E b \in db.books : b.isbn = ColumnValue(r.dto.isbn)
    THEN [r |-> Throw(r, BadRequest,
                     Failed("create book", FaultMessage), 1),
          db |-> db]
    ELSE LET row == [id |-> BookIdPool[db.nextBook],
                     title |-> ColumnValue(r.dto.title),
                     isbn |-> ColumnValue(r.dto.isbn),
                     published_date |-> ColumnValue(r.dto.publishedDate),
                     genre |-> ColumnValue(r.dto.genre),
                     author_id |-> ColumnValue(r.dto.authorId),
                     created_at |-> db.clock + 1,
                     updated_at |-> db.clock + 1]
         IN [r |-> Return(r, Some(BookMapToEntity(BooksSelect(row, db))),
                          1, 1),
             db |-> [db EXCEPT !.books = @ \cup {row},
                               !.nextBook = @ + 1,
                               !.clock = @ + 1]]

\* BooksService.create: the insert(...).select(join).single() round trip.
BooksInsert(r, db, err) ==
    IF err
    THEN [r |-> Throw(r, BadRequest,
                     Failed("create book", FaultMessage), 1),
          db |-> db]
    ELSE LET row == [id |-> BookIdPool[db.nextBook],
                     title |-> ColumnValue(r.dto.title),
                     isbn |-> ColumnValue(r.dto.isbn),
                     published_date |-> ColumnValue(r.dto.publishedDate),
                     genre |-> ColumnValue(r.dto.genre),
                     author_id |-> ColumnValue(r.dto.authorId),
                     created_at |-> db.clock + 1,
                     updated_at |-> db.clock + 1]
         IN [r |-> Return(r, Some(BookMapToEntity(BooksSelect(row, db))),
                          1, 1),
             db |-> [db EXCEPT !.books = @ \cup {row},
                               !.nextBook = @ + 1,
                               !.clock = @ + 1]]

\* updateData built with truthiness tests: if (dto.x) updateData.x = dto.x
BooksUpdateDataTruthy(dto) ==
    LET cols == {c \in {"title", "isbn", "published_date", "genre",
                        "author_id"} :
                    CASE c = "title" -> Truthy(dto.title)
                      [] c = "isbn" -> Truthy(dto.isbn)
                      [] c = "published_date" -> Truthy(dto.publishedDate)
                      [] c = "genre" -> Truthy(dto.genre)
                      [] c = "author_id" -> Truthy(dto.authorId)}
    IN [c \in cols |->
            CASE c = "title" -> dto.title
              [] c = "isbn" -> dto.isbn
              [] c = "published_date" -> dto.publishedDate
              [] c = "genre" -> dto.genre
              [] c = "author_id" -> dto.authorId]

\* BooksService.update: the fields of the partial that are not undefined.
BooksUpdateData(dto) ==
    LET cols == {c \in {"title", "isbn", "published_date", "genre",
                        "author_id"} :
                    CASE c = "title" -> dto.title # Undef
                      [] c = "isbn" -> dto.isbn # Undef
                      [] c = "published_date" -> dto.publishedDate # Undef
                      [] c = "genre" -> dto.genre # Undef
                      [] c = "author_id" -> dto.authorId # Undef}
    IN [c \in cols |->
            CASE c = "title" -> dto.title
              [] c = "isbn" -> dto.isbn
              [] c = "published_date" -> dto.publishedDate
              [] c = "genre" -> dto.genre
              [] c = "author_id" -> dto.authorId]

\* BooksService.update: if (updateBookDto.authorId) ...
BooksUpdateChecksAuthor(dto) == Truthy(dto.authorId)

\* BooksService.update: if (updateBookDto.isbn) ...
BooksUpdateChecksIsbn(dto) == Truthy(dto.isbn)

\* update write that reports success when no row has the id.
BooksWriteLenient(r, db, err) ==
    LET hit == {b \in db.books : b.id = r.id}
        data == BooksUpdateData(r.dto)
        new == {ApplyUpdate(b, data, db.clock + 1) : b \in hit}
        res == Single({BooksSelect(b, db) : b \in new}, err)
    IN IF err
       THEN [r |-> Throw(r, BadRequest,
                        Failed("update book", FaultMessage), 1),
             db |-> db]
       ELSE IF res.error
       THEN [r |-> Return(r, None, 1, 1), db |-> db]
       ELSE [r |-> Return(r, Some(BookMapToEntity(Get(res.data))), 1, 1),
             db |-> [db EXCEPT !.books = (@ \ hit) \cup new,
                               !.clock = @ + 1]]

\* BooksService.update: update(updateData).eq('id', id).select(join).single()
BooksWrite(r, db, err) ==
    LET hit == {b \in db.books : b.id = r.id}
        data == BooksUpdateData(r.dto)
        new == {ApplyUpdate(b, data, db.clock + 1) : b \in hit}
        res == Single({BooksSelect(b, db) : b \in new}, err)
    IN IF err
       THEN [r |-> Throw(r, BadRequest,
                        Failed("update book", FaultMessage), 1),
             db |-> db]
       ELSE IF res.error
       THEN [r |-> [Throw(r, BadRequest,
                          Failed("update book", NoRowsMessage), 1)
                        EXCEPT !.writes = @ + 1],
             db |-> db]
       ELSE [r |-> Return(r, Some(BookMapToEntity(Get(res.data))), 1, 1),
             db |-> [db EXCEPT !.books = (@ \ hit) \cup new,
                               !.clock = @ + 1]]

\* delete that reports an error when no row has the id.
BooksDeleteStrict(r, db, err) ==
    IF err \/ ~ \E b \in db.books : b.id = r.id
    THEN [r |-> Throw(r, BadRequest,
                     Failed("delete book", FaultMessage), 1),
          db |-> db]
    ELSE [r |-> Return(r, None, 1, 1),
          db |-> [db EXCEPT !.books = {b \in @ : b.id # r.id},
                            !.clock = @ + 1]]

\* BooksService.remove: delete().eq('id', id)
BooksDelete(r, db, err) ==
    IF err
    THEN [r |-> Throw(r, BadRequest,
                     Failed("delete book", FaultMessage), 1),
          db |-> db]
    ELSE [r |-> Return(r, None, 1, 1),
          db |-> [db EXCEPT !.books = {b \in @ : b.id # r.id},
                            !.clock = @ + 1]]

\* update without the test for an empty updateData.
BooksUpdateAlwaysWrites(r) == Await(r, "write", 0)

\* BooksService.update after the uniqueness check: build updateData, then
\* either findOne(id) again or the update write.
BooksUpdateAfterIsbn(r) ==
    IF DOMAIN BooksUpdateData(r.dto) = {} THEN Await(r, "reread", 0)
    ELSE Await(r, "write", 0)

\* BooksService.update after the author check.
BooksUpdateAfterAuthor(r) ==
    IF BooksUpdateChecksIsbn(r.dto) THEN Await(r, "isbn", 0)
    ELSE BooksUpdateAfterIsbn(r)

\* update that looks the ISBN up first and writes without the author check.
BooksUpdateIsbnFirst(r) ==
    IF BooksUpdateChecksIsbn(r.dto) THEN Await(r, "isbn", 0)
    ELSE BooksUpdateAfterIsbn(r)

\* BooksService.update after findOne(id) returned the book.
BooksUpdateAfterExists(r) ==
    IF BooksUpdateChecksAuthor(r.dto)
    THEN IF validateUUID(r.dto.authorId) THEN Await(r, "author", 0)
         ELSE Throw(r, BadRequest, "Invalid UUID format", 0)
    ELSE BooksUpdateAfterAuthor(r)

\* BooksService.findAll: the rows the filters of the query select.
BooksFilter(query, db) ==
    {b \in db.books :
        /\ Truthy(query.title) => Ilike(b.title, query.title)
        /\ Truthy(query.isbn) => Ilike(b.isbn, query.isbn)
        /\ Truthy(query.genre) => Ilike(b.genre, query.genre)
        /\ Truthy(query.authorId) => b.author_id = query.authorId}

\* BooksService.findAll: the awaited query and the mapping of its rows.
BooksQuery(r, db, err) ==
    LET offset == FindAllOffset(r.dto)
        res == RangeQuery(BooksFilter(r.dto, db), offset,
                          offset + FindAllLimit(r.dto) - 1, err)
    IN [r |-> IF res.error
              THEN Throw(r, BadRequest,
                         Failed("fetch books",
                                IF err THEN FaultMessage ELSE RangeMessage),
                         1)
              ELSE Return(r, Some([data |-> [i \in 1..Len(res.data) |->
                                               BookMapToEntity(
                                                 BooksSelect(res.data[i], db))],
                                   total |-> res.count]), 1, 0),
        db |-> db]

\* BooksService.findAll: the code up to the awaited query; the author
\* filter is validated when it is truthy.
BooksQueryBegin(r) ==
    IF Truthy(r.dto.authorId) /\ ~validateUUID(r.dto.authorId)
    THEN Throw(r, BadRequest, "Invalid UUID format", 0)
    ELSE Await(r, "query", 0)

\* findAll of either service, from its first statement to its return or
\* throw: at most one round trip.
FindAll(req, db, err) ==
    IF req.op = "authors.findAll"
    THEN AuthorsQuery(Await(req, "query", 0), db, err)
    ELSE IF BooksQueryBegin(req).pc = "done"
    THEN [r |-> BooksQueryBegin(req), db |-> db]
    ELSE BooksQuery(BooksQueryBegin(req), db, err)

\* The synchronous prefix of a BooksService method, up to its first await.
BooksBegin(r) ==
    CASE r.op = "books.create" ->
            IF validateUUID(r.dto.authorId) THEN Await(r, "author", 0)
            ELSE Throw(r, BadRequest, "Invalid UUID format", 0)
      [] r.op = "books.findOne" ->
            IF validateUUID(r.id) THEN Await(r, "lookup", 0)
            ELSE Throw(r, BadRequest, "Invalid UUID format", 0)
      [] r.op = "books.update" ->
            IF validateUUID(r.id) THEN Await(r, "exists", 0)
            ELSE Throw(r, BadRequest, "Invalid UUID format", 0)
      [] r.op = "books.remove" ->
            IF validateUUID(r.id) THEN Await(r, "exists", 0)
            ELSE Throw(r, BadRequest, "Invalid UUID format", 0)

\* create that goes on to the ISBN lookup whatever the author lookup found.
BooksCreateAuthorUnchecked(r, db, err) ==
    [r |-> Await(r, "isbn", 1), db |-> db]

\* BooksService.create: await this.authorsService.findOne(authorId)
BooksCreateAuthor(r, db, err) ==
    LET res == AuthorsLookup(r.dto.authorId, db, err)
    IN [r |-> IF res.error \/ ~IsSome(res.data)
              THEN Throw(r, NotFound, "Author not found", 1)
              ELSE Await(r, "isbn", 1),
        db |-> db]

\* BooksService.create: the ISBN lookup; if (existingBook) throw
BooksCreateIsbn(r, db, err) ==
    LET res == BooksIsbnLookup(r.dto.isbn, db, err)
    IN [r |-> IF IsSome(res.data)
              THEN Throw(r, BadRequest, "ISBN already exists", 1)
              ELSE Await(r, "insert", 1),
        db |-> db]

\* findOne that reports an error of the lookup as a failed request.
BooksFindOneLookupReportsError(r, db, err) ==
    LET res == BooksLookup(r.id, db, err)
    IN [r |-> IF err
              THEN Throw(r, BadRequest, Failed("fetch book", FaultMessage), 1)
              ELSE IF ~IsSome(res.data)
              THEN Throw(r, NotFound, "Book not found", 1)
              ELSE Return(r, Some(BookMapToEntity(Get(res.data))), 1, 0),
        db |-> db]

\* BooksService.findOne: the lookup and the mapping of its row.
BooksFindOneLookup(r, db, err) ==
    LET res == BooksLookup(r.id, db, err)
    IN [r |-> IF res.error \/ ~IsSome(res.data)
              THEN Throw(r, NotFound, "Book not found", 1)
              ELSE Return(r, Some(BookMapToEntity(Get(res.data))), 1, 0),
        db |-> db]

\* BooksService.update: await this.findOne(id), then the code up to the
\* next await.
BooksUpdateExists(r, db, err) ==
    LET res == BooksLookup(r.id, db, err)
    IN [r |-> IF res.error \/ ~IsSome(res.data)
              THEN Throw(r, NotFound, "Book not found", 1)
              ELSE BooksUpdateAfterExists(Await(r, r.pc, 1)),
        db |-> db]

\* BooksService.update: await this.authorsService.findOne(authorId)
BooksUpdateAuthor(r, db, err) ==
    LET res == AuthorsLookup(r.dto.authorId, db, err)
    IN [r |-> IF res.error \/ ~IsSome(res.data)
              THEN Throw(r, NotFound, "Author not found", 1)
              ELSE BooksUpdateAfterAuthor(Await(r, r.pc, 1)),
        db |-> db]

\* BooksService.update: the ISBN lookup among the other books
BooksUpdateIsbn(r, db, err) ==
    LET res == BooksOtherIsbnLookup(r.dto.isbn, r.id, db, err)
    IN [r |-> IF IsSome(res.data)
              THEN Throw(r, BadRequest, "ISBN already exists", 1)
              ELSE BooksUpdateAfterIsbn(Await(r, r.pc, 1)),
        db |-> db]

\* remove that goes on to the delete whatever the existence check found.
BooksRemoveUnchecked(r, db, err) ==
    [r |-> Await(r, "delete", 1), db |-> db]

\* BooksService.remove: select('id').eq('id', id).single()
BooksRemoveExists(r, db, err) ==
    LET res == Single({b \in db.books : b.id = r.id}, err)
    IN [r |-> IF ~IsSome(res.data)
              THEN Throw(r, NotFound, "Book not found", 1)
              ELSE Await(r, "delete", 1),
        db |-> db]

\* One round trip of a BooksService method and the code up to the next.
BooksStep(r, db, err) ==
    CASE r.op = "books.create" /\ r.pc = "author" ->
            BooksCreateAuthor(r, db, err)
      [] r.op = "books.create" /\ r.pc = "isbn" -> BooksCreateIsbn(r, db, err)
      [] r.op = "books.create" /\ r.pc = "insert" -> BooksInsert(r, db, err)
      [] r.op = "books.findOne" -> BooksFindOneLookup(r, db, err)
      [] r.op = "books.update" /\ r.pc = "exists" ->
            BooksUpdateExists(r, db, err)
      [] r.op = "books.update" /\ r.pc = "author" ->
            BooksUpdateAuthor(r, db, err)
      [] r.op = "books.update" /\ r.pc = "isbn" -> BooksUpdateIsbn(r, db, err)
      [] r.op = "books.update" /\ r.pc = "reread" ->
            BooksFindOneLookup(r, db, err)
      [] r.op = "books.update" /\ r.pc = "write" -> BooksWrite(r, db, err)
      [] r.op = "books.remove" /\ r.pc = "exists" ->
            BooksRemoveExists(r, db, err)
      [] r.op = "books.remove" /\ r.pc = "delete" -> BooksDelete(r, db, err)

(***************************************************************************)
(* Running requests.                                                       *)
(***************************************************************************)
AuthorOps == {"authors.create", "authors.findOne", "authors.update",
              "authors.remove"}
BookOps == {"books.create", "books.findOne", "books.update", "books.remove"}

Begin(r) == IF r.op \in AuthorOps THEN AuthorsBegin(r) ELSE BooksBegin(r)

Step(r, db, err) ==
    IF r.op \in AuthorOps THEN AuthorsStep(r, db, err)
    ELSE BooksStep(r, db, err)

\* Run the request to its end; errs are the round trips (by number) at which
\* the datastore reports an error.
RECURSIVE Run(_, _, _)
Run(r, db, errs) ==
    IF r.pc = "done" THEN [r |-> r, db |-> db]
    ELSE LET out == Step(r, db, (r.trips + 1) \in errs)
         IN Run(out.r, out.db, errs)

(***************************************************************************)
(* The callers: the requests issued to the two services.  cfg.focus        *)
(* selects the input sets, cfg.max* bound ids generated and writes made.   *)
(***************************************************************************)
Isbn1 == "978-0-123456-78-9"

\* The ISBN a caller that never repeats one gives its n-th Book.
IsbnPool == <<Isbn1, "978-0-123456-00-1", "978-0-123456-00-2",
              "978-0-123456-00-3", "978-0-123456-99-9">>

Procs == {"p", "q"}

\* Ids a caller can name: those generated so far, a well-formed unknown one
\* and the malformed ones.
KnownAuthorIds == {AuthorIdPool[i] : i \in 1..(nextAuthor - 1)}
KnownBookIds == {BookIdPool[i] : i \in 1..(nextBook - 1)}
AuthorIdInputs ==
    CASE cfg.focus = "list" -> KnownAuthorIds
      [] cfg.focus = "fault" -> KnownAuthorIds \cup {GhostId, BadId}
      [] OTHER -> KnownAuthorIds \cup {GhostId, BadId, NilId}
BookIdInputs ==
    CASE cfg.focus = "list" -> KnownBookIds
      [] cfg.focus = "fault" -> KnownBookIds \cup {GhostId, BadId}
      [] OTHER -> KnownBookIds \cup {GhostId, BadId, NilId}

\* The faults of the datastore during one request of at most n round
\* trips: none, or an error reported at one of the round trips.
Faults(n) ==
    IF cfg.focus = "fault"
    THEN {{}} \cup {{k} : k \in 1..(IF n < FaultMaxTrip THEN n
                                    ELSE FaultMaxTrip)}
    ELSE {{}}

AuthorCreateDtos ==
    [firstName : IF cfg.focus = "list" /\ nextAuthor % 2 = 0 THEN {"Bob"}
                 ELSE {"Ann"},
     lastName : {"Lee"},
     bio : {Undef},
     birthDate : {"1990-01-01"}]

AuthorPartials ==
    {d \in [firstName : {Undef, "Bob"}, lastName : {Undef},
            bio : IF cfg.focus = "fault" THEN {Undef} ELSE {Undef, Empty},
            birthDate : IF cfg.focus = "fault" THEN {Undef}
                        ELSE {Undef, "2023-01-01"}] :
        Cardinality(DOMAIN AuthorsUpdateData(d)) <= MaxSupplied}

BookCreateDtos ==
    [title : IF cfg.focus = "list" /\ nextBook % 2 = 0 THEN {"Emma"}
             ELSE {"Dune"},
     isbn : CASE cfg.focus \in {"conc", "race"} -> {Isbn1}
              [] cfg.focus = "list" -> {IsbnPool[nextBook]}
              [] cfg.focus \in {"order", "fault"} -> {Isbn1, IsbnPool[2]}
              [] OTHER -> {Empty, Isbn1},
     publishedDate : {"2023-01-01"},
     genre : {Undef},
     authorId : CASE cfg.focus = "all" -> AuthorIdInputs
                  [] cfg.focus \in {"order", "fault"} ->
                        KnownAuthorIds \cup {GhostId}
                  [] OTHER -> KnownAuthorIds]

BookPartials ==
    CASE cfg.focus = "all" ->
            {d \in [title : {Undef, "Emma"},
                    isbn : {Undef, Empty, Isbn1},
                    publishedDate : {Undef},
                    genre : {Undef, Empty},
                    authorId : {Undef, Empty} \cup AuthorIdInputs] :
                Cardinality(DOMAIN BooksUpdateData(d)) <= MaxSupplied}
      [] cfg.focus = "isbn" ->
            [title : {Undef}, isbn : {Empty, Isbn1}, publishedDate : {Undef},
             genre : {Undef}, authorId : {Undef}]
      [] cfg.focus = "conc" ->
            [title : {Undef}, isbn : {Undef}, publishedDate : {Undef},
             genre : {"epic"}, authorId : {Undef} \cup KnownAuthorIds]
      [] cfg.focus = "order" ->
            [title : {Undef}, isbn : {Undef, Isbn1}, publishedDate : {Undef},
             genre : {Undef},
             authorId : {Undef, GhostId} \cup KnownAuthorIds]
      [] cfg.focus = "race" ->
            [title : {Undef}, isbn : {Undef}, publishedDate : {Undef},
             genre : {"epic"}, authorId : {Undef}]
      [] cfg.focus = "fault" ->
            [title : {Undef}, isbn : {Undef, IsbnPool[2]},
             publishedDate : {Undef}, genre : {Undef},
             authorId : {Undef} \cup KnownAuthorIds]

\* The list queries: every page and limit text without a filter, and the
\* filters (one text filter, for Books also the author filter) with the
\* first or second page of the default or a one-record window.
PageInputs == {Undef, "0", "1", "2", "-1"}
LimitInputs == {Undef, "0", "1", "2", "abc"}

AuthorQueries ==
    IF cfg.focus = "fault"
    THEN [page : {Undef}, limit : {Undef}, firstName : {Undef},
          lastName : {Undef}]
    ELSE [page : PageInputs, limit : LimitInputs, firstName : {Undef},
          lastName : {Undef}]
         \cup [page : {Undef, "2"}, limit : {Undef, "1"}, firstName : {"N"},
               lastName : {Undef}]

BookQueries ==
    IF cfg.focus = "fault"
    THEN [page : {Undef}, limit : {Undef}, title : {Undef},
          isbn : {Undef}, genre : {Undef}, authorId : {Undef}]
    ELSE [page : PageInputs, limit : LimitInputs, title : {Undef},
          isbn : {Undef}, genre : {Undef}, authorId : {Undef}]
         \cup [page : {Undef, "2"}, limit : {Undef, "1"},
               title : {Undef, "N"}, isbn : {Undef}, genre : {Undef},
               authorId : {Undef, Empty, BadId, GhostId}
                          \cup KnownAuthorIds]

WithinBounds(db) ==
    /\ db.clock <= cfg.maxClock
    /\ db.nextAuthor <= cfg.maxAuthors + 1
    /\ db.nextBook <= cfg.maxBooks + 1

Commit(db) ==
    /\ authors' = db.authors
    /\ books' = db.books
    /\ nextAuthor' = db.nextAuthor
    /\ nextBook' = db.nextBook
    /\ clock' = db.clock

\* The caller has read the response of its last list request.
Ready == reqs["p"].op \notin {"authors.findAll", "books.findAll"}

\* A request handled from its first statement to its return or throw.
Handle(req) ==
    LET out == Run(Begin(req), Db, req.errs)
    IN /\ Ready
       /\ WithinBounds(out.db)
       /\ Commit(out.db)
       /\ reqs' = [reqs EXCEPT !["p"] = out.r]
       /\ UNCHANGED cfg

\* Both controllers' findAll: const page = parseInt(query.page || '1')
ControllerPage(query) == ParseInt(OrString(query.page, "1"))

\* Both controllers' findAll: const limit = parseInt(query.limit || '10')
ControllerLimit(query) == ParseInt(OrString(query.limit, "10"))

\* Both controllers' findAll: the envelope built from the service's result.
ListEnvelope(query, result) ==
    [data |-> result.data,
     meta |-> [total |-> result.total,
               page |-> ControllerPage(query),
               limit |-> ControllerLimit(query),
               totalPages |-> MathCeilDiv(result.total,
                                          ControllerLimit(query))]]

\* A list request handled by the controller: the service's findAll run to
\* its end, then the envelope.
HandleList(req) ==
    LET out == FindAll(req, Db, 1 \in req.errs)
        r == IF out.r.status = "OK"
             THEN [out.r EXCEPT !.ret =
                       Some(ListEnvelope(req.dto, Get(out.r.ret)))]
             ELSE out.r
    IN /\ Ready
       /\ WithinBounds(out.db)
       /\ Commit(out.db)
       /\ reqs' = [reqs EXCEPT !["p"] = r]
       /\ UNCHANGED cfg

AuthorsFindAll ==
    \E query \in AuthorQueries, errs \in Faults(1) :
        HandleList(WithFaults(NewRequest("authors.findAll", Undef, query),
                   errs))

BooksFindAll ==
    \E query \in BookQueries, errs \in Faults(1) :
        HandleList(WithFaults(NewRequest("books.findAll", Undef, query),
                   errs))

AuthorsCreate ==
    \E dto \in AuthorCreateDtos, errs \in Faults(1) :
        Handle(WithFaults(NewRequest("authors.create", Undef, dto),
                   errs))

AuthorsFindOne ==
    \E id \in AuthorIdInputs, errs \in Faults(1) :
        Handle(WithFaults(NewRequest("authors.findOne", id, NoDto),
                   errs))

AuthorsUpdate ==
    \E id \in AuthorIdInputs, dto \in AuthorPartials, errs \in Faults(2) :
        Handle(WithFaults(NewRequest("authors.update", id, dto),
                   errs))

AuthorsRemove ==
    \E id \in AuthorIdInputs, errs \in Faults(2) :
        Handle(WithFaults(NewRequest("authors.remove", id, NoDto),
                   errs))

BooksCreate ==
    \E dto \in BookCreateDtos, errs \in Faults(3) :
        Handle(WithFaults(NewRequest("books.create", Undef, dto),
                   errs))

BooksFindOne ==
    \E id \in BookIdInputs, errs \in Faults(1) :
        Handle(WithFaults(NewRequest("books.findOne", id, NoDto),
                   errs))

BooksUpdate ==
    \E id \in BookIdInputs, dto \in BookPartials, errs \in Faults(4) :
        Handle(WithFaults(NewRequest("books.update", id, dto),
                   errs))

BooksRemove ==
    \E id \in BookIdInputs, errs \in Faults(2) :
        Handle(WithFaults(NewRequest("books.remove", id, NoDto),
                   errs))

InitDb ==
    /\ authors = {}
    /\ books = {}
    /\ nextAuthor = 1
    /\ nextBook = 1
    /\ clock = 0
    /\ reqs = [p \in Procs |-> Idle]

Init ==
    /\ InitDb
    /\ cfg = [focus |-> "all", maxAuthors |-> MaxAuthors,
              maxBooks |-> MaxBooks, maxClock |-> MaxClock]

Next ==
    \/ AuthorsCreate
    \/ AuthorsFindOne
    \/ AuthorsUpdate
    \/ AuthorsRemove
    \/ BooksCreate
    \/ BooksFindOne
    \/ BooksUpdate
    \/ BooksRemove

Spec == Init /\ [][Next]_vars

\* Book create, update and remove only, with the isbn as the one input varied.
InitIsbn ==
    /\ InitDb
    /\ cfg = [focus |-> "isbn", maxAuthors |-> 1,
              maxBooks |-> IsbnMaxBooks, maxClock |-> IsbnMaxClock]

NextIsbn ==
    \/ AuthorsCreate
    \/ BooksCreate
    \/ BooksUpdate
    \/ BooksRemove

SpecIsbn == InitIsbn /\ [][NextIsbn]_vars

\* The further requests of the callers that race on one entity: the update
\* of a stored Author and the remove of a stored Book.
RaceRequests ==
    IF cfg.focus # "race" THEN {}
    ELSE {NewRequest("authors.update", id,
                     [firstName |-> "Bob", lastName |-> Undef, bio |-> Undef,
                      birthDate |-> Undef]) : id \in KnownAuthorIds}
         \cup {NewRequest("books.remove", id, NoDto) : id \in KnownBookIds}

\* Requests of several callers, interleaved at their round trips.
ConcRequests ==
    (IF cfg.focus = "race" THEN {}
     ELSE {NewRequest("authors.create", Undef, dto) :
             dto \in AuthorCreateDtos})
    \cup {NewRequest("authors.remove", id, NoDto) : id \in KnownAuthorIds}
    \cup {NewRequest("books.create", Undef, dto) : dto \in BookCreateDtos}
    \cup {NewRequest("books.update", id, dto) :
            id \in KnownBookIds, dto \in BookPartials}
    \cup RaceRequests

ConcBegin ==
    \E p \in Procs, req \in ConcRequests :
        /\ reqs[p].pc = "done"
        /\ reqs' = [reqs EXCEPT ![p] = Begin(req)]
        /\ UNCHANGED <<authors, books, nextAuthor, nextBook, clock, cfg>>

ConcStep ==
    \E p \in Procs :
        /\ reqs[p].pc # "done"
        /\ reqs[p].op \in AuthorOps \cup BookOps
        /\ LET out == Step(reqs[p], Db, FALSE)
           IN /\ WithinBounds(out.db)
              /\ Commit(out.db)
              /\ reqs' = [reqs EXCEPT ![p] = out.r]
        /\ UNCHANGED cfg

InitConc ==
    /\ InitDb
    /\ cfg = [focus |-> "conc", maxAuthors |-> 1, maxBooks |-> 1,
              maxClock |-> ConcMaxClock]

NextConc == ConcBegin \/ ConcStep

SpecConc == InitConc /\ [][NextConc]_vars

\* The Book list queries of a caller that races with creates and removes.
RaceQueries ==
    [page : {Undef}, limit : {Undef, "1"}, title : {Undef}, isbn : {Undef},
     genre : {Undef}, authorId : {Undef}]
    \cup [page : {Undef}, limit : {Undef}, title : {"N"}, isbn : {Undef},
          genre : {"E"}, authorId : KnownAuthorIds]

\* The findAll of BooksService that awaits two queries: the page and limit
\* it parses (parseInt(query.page || '1'), parseInt(query.limit || '10'))
\* and its offset, for the digit texts of RaceQueries.
TwoQueryOffset(query) ==
    (ControllerPage(query).n - 1) * ControllerLimit(query).n

\* Its first await: select('*', { count: 'exact', head: true }) with the
\* filters; the count is kept for the result.
BooksCountQuery(r, db, err) ==
    IF err
    THEN [r |-> Throw(r, BadRequest,
                     Failed("fetch books count", FaultMessage), 1),
          db |-> db]
    ELSE [r |-> [Await(r, "data", 1) EXCEPT !.ret =
                   Some([count |-> Cardinality(BooksFilter(r.dto, db))])],
          db |-> db]

\* Its second await: the rows with the same filters, range and order; the
\* result carries these rows and the count of the first await.
BooksDataQuery(r, db, err) ==
    LET offset == TwoQueryOffset(r.dto)
        res == RangeQuery(BooksFilter(r.dto, db), offset,
                          offset + ControllerLimit(r.dto).n - 1, err)
    IN [r |-> IF res.error
              THEN [Throw(r, BadRequest,
                          Failed("fetch books",
                                 IF err THEN FaultMessage ELSE RangeMessage),
                          1)
                       EXCEPT !.ret = None]
              ELSE Return(r, Some([data |-> [i \in 1..Len(res.data) |->
                                               BookMapToEntity(
                                                 BooksSelect(res.data[i], db))],
                                   total |-> Get(r.ret).count]), 1, 0),
        db |-> db]

TwoQueryOp == "books.findAllTwoQueries"

\* A list request served by the two-query findAll: the call and the count
\* query ...
ConcListCount ==
    \E query \in RaceQueries :
        LET req == BooksQueryBegin(NewRequest(TwoQueryOp, Undef, query))
        IN /\ reqs["q"].pc = "done"
           /\ reqs' = [reqs EXCEPT !["q"] =
                  IF req.pc = "done" THEN req
                  ELSE BooksCountQuery(req, Db, FALSE).r]
           /\ UNCHANGED <<authors, books, nextAuthor, nextBook, clock, cfg>>

\* ... and, after any round trips of the other caller, the data query and
\* the controller's envelope.
ConcListData ==
    LET out == BooksDataQuery(reqs["q"], Db, FALSE)
    IN /\ reqs["q"].op = TwoQueryOp
       /\ reqs["q"].pc = "data"
       /\ reqs' = [reqs EXCEPT !["q"] =
              IF out.r.status = "OK"
              THEN [out.r EXCEPT !.ret =
                       Some(ListEnvelope(out.r.dto, Get(out.r.ret)))]
              ELSE out.r]
       /\ UNCHANGED <<authors, books, nextAuthor, nextBook, clock, cfg>>

\* A Book list request of one caller while the request of the other may be
\* between two of its round trips: findAll awaits one query, so the request
\* is one step on the datastore.
ConcList ==
    \E p \in {"q"}, query \in RaceQueries :
        LET req == NewRequest("books.findAll", Undef, query)
            out == FindAll(req, Db, FALSE)
        IN /\ reqs[p].pc = "done"
           /\ reqs' = [reqs EXCEPT ![p] =
                  IF out.r.status = "OK"
                  THEN [out.r EXCEPT !.ret =
                           Some(ListEnvelope(query, Get(out.r.ret)))]
                  ELSE out.r]
           /\ UNCHANGED <<authors, books, nextAuthor, nextBook, clock, cfg>>

\* Callers that race on one entity: two creates with one isbn, two removes
\* of one id, an update and a remove of one id, a list and a write.
\* The store the races start from: the one an Author create leaves.
RaceStore ==
    Run(Begin(NewRequest("authors.create", Undef,
                         [firstName |-> "Ann", lastName |-> "Lee",
                          bio |-> Undef, birthDate |-> "1990-01-01"])),
        [authors |-> {}, books |-> {}, nextAuthor |-> 1, nextBook |-> 1,
         clock |-> 0], {}).db

InitRace ==
    /\ authors = RaceStore.authors
    /\ books = RaceStore.books
    /\ nextAuthor = RaceStore.nextAuthor
    /\ nextBook = RaceStore.nextBook
    /\ clock = RaceStore.clock
    /\ reqs = [p \in Procs |-> Idle]
    /\ cfg = [focus |-> "race", maxAuthors |-> 1, maxBooks |-> RaceMaxBooks,
              maxClock |-> RaceMaxClock]

NextRace ==
    \/ ConcBegin
    \/ ConcStep
    \/ ConcList
    \/ ConcListCount
    \/ ConcListData

SpecRace == InitRace /\ [][NextRace]_vars

\* Book create and update whose dto names an Author and an ISBN at once, so
\* that more than one of the checks of a request can fail.
InitOrder ==
    /\ InitDb
    /\ cfg = [focus |-> "order", maxAuthors |-> 1,
              maxBooks |-> OrderMaxBooks, maxClock |-> OrderMaxClock]

NextOrder ==
    \/ AuthorsCreate
    \/ BooksCreate
    \/ BooksUpdate

SpecOrder == InitOrder /\ [][NextOrder]_vars

\* The list requests of both collections over stores built by create and
\* remove requests.  The caller reads the response of a list request
\* (ListRespond) before it issues its next request.
ListRespond ==
    /\ ~Ready
    /\ reqs' = [reqs EXCEPT !["p"] = Idle]
    /\ UNCHANGED <<authors, books, nextAuthor, nextBook, clock, cfg>>

InitList ==
    /\ InitDb
    /\ cfg = [focus |-> "list", maxAuthors |-> ListMaxAuthors,
              maxBooks |-> ListMaxBooks, maxClock |-> ListMaxClock]

NextList ==
    \/ AuthorsCreate
    \/ AuthorsRemove
    \/ BooksCreate
    \/ BooksRemove
    \/ AuthorsFindAll
    \/ BooksFindAll
    \/ ListRespond

SpecList == InitList /\ [][NextList]_vars

\* Every request of both services, run from its call to its return or throw
\* on a datastore that may report an error at one round trip of the request.
InitFault ==
    /\ InitDb
    /\ cfg = [focus |-> "fault", maxAuthors |-> 1,
              maxBooks |-> FaultMaxBooks, maxClock |-> FaultMaxClock]

NextFault ==
    \/ AuthorsCreate
    \/ AuthorsFindOne
    \/ AuthorsUpdate
    \/ AuthorsRemove
    \/ AuthorsFindAll
    \/ BooksCreate
    \/ BooksFindOne
    \/ BooksUpdate
    \/ BooksRemove
    \/ BooksFindAll
    \/ ListRespond

SpecFault == InitFault /\ [][NextFault]_vars

(***************************************************************************)
(* Properties.  In Spec and SpecIsbn every step handles one request from   *)
(* its call to its return or throw, and leaves it in reqs["p"]: in a step, *)
(* reqs'["p"] is the request handled, the unprimed variables are the       *)
(* datastore it was called on and the primed ones the datastore it left.   *)
(***************************************************************************)
Last == reqs["p"]

\* Ids that do not match the UUID pattern of validateUUID.
MalformedIds == {BadId, NilId, Empty}

ByIdOps == {"authors.findOne", "authors.update", "authors.remove",
            "books.findOne", "books.update", "books.remove"}

AllUndefinedAuthor ==
    [firstName |-> Undef, lastName |-> Undef, bio |-> Undef,
     birthDate |-> Undef]

AllUndefinedBook ==
    [title |-> Undef, isbn |-> Undef, publishedDate |-> Undef,
     genre |-> Undef, authorId |-> Undef]

\* The value a column holds after an update that supplied v for it.
Written(v, old) == IF v # Undef THEN v ELSE old

\* C1: after any sequence of Book create, update and remove requests, each
\* run to completion before the next, no two stored Books have the same isbn.
C1_IsbnUnique ==
    \A x \in books, y \in books : x.id # y.id => x.isbn # y.isbn

\* C2: Book create with the isbn of an already stored Book and an existing
\* author fails with BadRequestException (the ISBN exists), performs no
\* insert and leaves the stored Books unchanged.
C2_DuplicateIsbnCreateRejected ==
    [][LET r == reqs'["p"]
       IN (/\ r.op = "books.create"
           /\ \E b \in books : b.isbn = r.dto.isbn
           /\ \E a \in authors : a.id = r.dto.authorId)
          => /\ r.status = BadRequest
             /\ r.msg = "ISBN already exists"
             /\ r.writes = 0
             /\ books' = books]_vars

\* C3: Book create with an authorId that matches no stored Author fails with
\* NotFoundException when the id is well-formed and with BadRequestException
\* when it is malformed; the failure is the one AuthorsService.findOne raises
\* for that id, no round trip follows the author check (neither the ISBN
\* lookup nor the insert), and no Book is stored.
C3_CreateWithoutAuthorFails ==
    [][LET r == reqs'["p"]
       IN (/\ r.op = "books.create"
           /\ ~ \E a \in authors : a.id = r.dto.authorId)
          => LET f == Run(Begin(NewRequest("authors.findOne",
                                           r.dto.authorId, NoDto)),
                          Db, {}).r
             IN /\ r.status = IF r.dto.authorId \in MalformedIds
                              THEN BadRequest ELSE NotFound
                /\ r.status = f.status
                /\ r.msg = f.msg
                /\ r.trips = f.trips
                /\ r.trips <= 1
                /\ r.writes = 0
                /\ books' = books
                /\ nextBook' = nextBook]_vars

C3_Witness ==
    /\ Last.op = "books.create"
    /\ Last.dto.authorId = GhostId
    /\ Last.status = NotFound
    /\ Last.msg = "Author not found"
    /\ authors # {}

\* C4: whenever the insert of Book create, or the write of a Book update that
\* sets authorId, takes effect, an Author with that id is stored, under any
\* interleaving with other requests.
C4_AuthorStoredAtBookWrite ==
    [][\A p \in Procs :
          (/\ reqs[p].op \in {"books.create", "books.update"}
           /\ reqs[p].pc \in {"insert", "write"}
           /\ reqs'[p].writes = reqs[p].writes + 1
           /\ reqs'[p].status = "OK"
           /\ reqs[p].dto.authorId # Undef)
          => \E a \in authors : a.id = reqs[p].dto.authorId]_vars

\* C5: findOne, update and remove of either service, called with an id that
\* does not match the UUID pattern, fail with BadRequestException 'Invalid
\* UUID format' before any datastore round trip, leaving the datastore as it
\* was.
C5_MalformedIdRejected ==
    [][LET r == reqs'["p"]
       IN (r.op \in ByIdOps /\ r.id \in MalformedIds)
          => /\ r.status = BadRequest
             /\ r.msg = "Invalid UUID format"
             /\ r.trips = 0
             /\ r.writes = 0
             /\ authors' = authors
             /\ books' = books]_vars

C5_Witness ==
    /\ Last.op \in {"books.update", "books.remove", "authors.update",
                    "authors.remove"}
    /\ Last.id = NilId
    /\ Last.status = BadRequest
    /\ Last.trips = 0
    /\ authors # {}
    /\ books # {}

C7_EmptyUpdateIsNoOp ==
    [][LET r == reqs'["p"]
       IN /\ (/\ r.op = "authors.update"
              /\ r.dto = AllUndefinedAuthor
              /\ \E a \in authors : a.id = r.id)
             => /\ r.status = "OK"
                /\ r.writes = 0
                /\ authors' = authors
                /\ books' = books
                /\ \E a \in authors :
                      /\ a.id = r.id
                      /\ Get(r.ret).id = a.id
                      /\ Get(r.ret).firstName = a.first_name
                      /\ Get(r.ret).lastName = a.last_name
                      /\ Get(r.ret).bio = a.bio
                      /\ Get(r.ret).updatedAt = a.updated_at
          /\ (/\ r.op = "books.update"
              /\ r.dto = AllUndefinedBook
              /\ \E b \in books : b.id = r.id)
             => /\ r.status = "OK"
                /\ r.writes = 0
                /\ authors' = authors
                /\ books' = books
                /\ \E b \in books :
                      /\ b.id = r.id
                      /\ Get(r.ret).id = b.id
                      /\ Get(r.ret).title = b.title
                      /\ Get(r.ret).isbn = b.isbn
                      /\ Get(r.ret).genre = b.genre
                      /\ Get(r.ret).authorId = b.author_id
                      /\ Get(r.ret).updatedAt = b.updated_at]_vars

C7_Witness ==
    /\ Last.op = "books.update"
    /\ Last.dto = AllUndefinedBook
    /\ Last.status = "OK"
    /\ Last.trips = 2
    /\ \E b \in books : b.id = Last.id /\ b.updated_at < clock

\* C8: a successful update of an Author or Book writes exactly the fields of
\* the partial that are not undefined (the empty string is written), and
\* leaves the other user fields of that entity, its id, and every other
\* stored entity unchanged.
C8_UpdateWritesSuppliedFields ==
    [][LET r == reqs'["p"]
       IN /\ (r.op = "authors.update" /\ r.status = "OK")
             => /\ books' = books
                /\ {a \in authors' : a.id # r.id}
                      = {a \in authors : a.id # r.id}
                /\ \E old \in authors : \E new \in authors' :
                      /\ old.id = r.id
                      /\ new.id = r.id
                      /\ {a \in authors' : a.id = r.id} = {new}
                      /\ new.first_name
                            = Written(r.dto.firstName, old.first_name)
                      /\ new.last_name
                            = Written(r.dto.lastName, old.last_name)
                      /\ new.bio = Written(r.dto.bio, old.bio)
                      /\ new.birth_date
                            = Written(r.dto.birthDate, old.birth_date)
                      /\ new.created_at = old.created_at
          /\ (r.op = "books.update" /\ r.status = "OK")
             => /\ authors' = authors
                /\ {b \in books' : b.id # r.id} = {b \in books : b.id # r.id}
                /\ \E old \in books : \E new \in books' :
                      /\ old.id = r.id
                      /\ new.id = r.id
                      /\ {b \in books' : b.id = r.id} = {new}
                      /\ new.title = Written(r.dto.title, old.title)
                      /\ new.isbn = Written(r.dto.isbn, old.isbn)
                      /\ new.published_date
                            = Written(r.dto.publishedDate, old.published_date)
                      /\ new.genre = Written(r.dto.genre, old.genre)
                      /\ new.author_id
                            = Written(r.dto.authorId, old.author_id)
                      /\ new.created_at = old.created_at]_vars

C8_Witness ==
    /\ Last.op = "books.update"
    /\ Last.status = "OK"
    /\ Last.writes = 1
    /\ Last.dto.genre = Empty
    /\ \E b \in books :
          /\ b.id = Last.id
          /\ b.genre = Empty
          /\ b.title = "Dune"
          /\ b.updated_at = clock
          /\ b.created_at < clock

\* C9: Book update of a stored Book with an isbn supplied: if another stored
\* Book has that isbn the update fails with BadRequestException (the ISBN
\* exists) and no Book changes; if no other Book has it the uniqueness check
\* does not reject the update.
C9_UpdateIsbnChecked ==
    [][LET r == reqs'["p"]
       IN (/\ r.op = "books.update"
           /\ r.dto.isbn # Undef
           /\ \E b \in books : b.id = r.id)
          => IF \E o \in books : o.id # r.id /\ o.isbn = r.dto.isbn
             THEN /\ r.status = BadRequest
                  /\ r.msg = "ISBN already exists"
                  /\ books' = books
             ELSE r.msg # "ISBN already exists"]_vars

\* C10: Book update of a stored Book with an authorId supplied that matches
\* no stored Author fails with the failure of AuthorsService.findOne
\* (NotFoundException, BadRequestException when malformed), issues no update
\* write and leaves the Book as stored.
C10_UpdateWithoutAuthorFails ==
    [][LET r == reqs'["p"]
       IN (/\ r.op = "books.update"
           /\ r.dto.authorId # Undef
           /\ \E b \in books : b.id = r.id
           /\ ~ \E a \in authors : a.id = r.dto.authorId)
          => /\ r.status = IF r.dto.authorId \in MalformedIds
                           THEN BadRequest ELSE NotFound
             /\ r.writes = 0
             /\ books' = books]_vars

\* C11: remove(id) of a stored Author or Book succeeds and removes that
\* entity and no other; every later findOne, update or remove with the id of
\* a removed entity fails with NotFoundException; a create never returns an
\* id that was generated before.
C11_RemovedStaysRemoved ==
    [][LET r == reqs'["p"]
       IN /\ (r.op = "authors.remove" /\ \E a \in authors : a.id = r.id)
             => /\ r.status = "OK"
                /\ authors' = {a \in authors : a.id # r.id}
                /\ Cardinality(authors') = Cardinality(authors) - 1
                /\ books' = books
          /\ (r.op = "books.remove" /\ \E b \in books : b.id = r.id)
             => /\ r.status = "OK"
                /\ books' = {b \in books : b.id # r.id}
                /\ Cardinality(books') = Cardinality(books) - 1
                /\ authors' = authors
          /\ (/\ r.op \in {"authors.findOne", "authors.update",
                           "authors.remove"}
              /\ r.id \in KnownAuthorIds
              /\ ~ \E a \in authors : a.id = r.id)
             => r.status = NotFound /\ authors' = authors
          /\ (/\ r.op \in {"books.findOne", "books.update", "books.remove"}
              /\ r.id \in KnownBookIds
              /\ ~ \E b \in books : b.id = r.id)
             => r.status = NotFound /\ books' = books
          /\ (r.op = "authors.create" /\ r.status = "OK")
             => Get(r.ret).id \notin KnownAuthorIds
          /\ (r.op = "books.create" /\ r.status = "OK")
             => Get(r.ret).id \notin KnownBookIds]_vars

C11_Witness ==
    /\ Last.op \in {"authors.findOne", "authors.update", "authors.remove"}
    /\ Last.id \in KnownAuthorIds
    /\ Last.status = NotFound
    /\ authors # {}
    /\ \A a \in authors : a.id # Last.id /\ a.created_at > 1

\* C12: findOne, update and remove of either service, called with a
\* well-formed UUID that no stored entity of that kind has, fail with
\* NotFoundException, issue no update or delete, and leave the datastore as
\* it was.
C12_UnknownIdNotFound ==
    [][LET r == reqs'["p"]
       IN /\ (/\ r.op \in {"authors.findOne", "authors.update",
                           "authors.remove"}
              /\ validateUUID(r.id)
              /\ ~ \E a \in authors : a.id = r.id)
             => /\ r.status = NotFound
                /\ r.msg = "Author not found"
                /\ r.writes = 0
                /\ authors' = authors /\ books' = books /\ clock' = clock
          /\ (/\ r.op \in {"books.findOne", "books.update", "books.remove"}
              /\ validateUUID(r.id)
              /\ ~ \E b \in books : b.id = r.id)
             => /\ r.status = NotFound
                /\ r.msg = "Book not found"
                /\ r.writes = 0
                /\ authors' = authors /\ books' = books /\ clock' = clock]_vars

C12_Witness ==
    /\ Last.op = "books.remove"
    /\ Last.id = GhostId
    /\ Last.status = NotFound
    /\ Last.trips = 1
    /\ books # {}

(***************************************************************************)
(* List requests.  In SpecList a step that handles a list request leaves   *)
(* the envelope in reqs'["p"].ret.  The operators below state what a query *)
(* asks for without the services' code: the number a text denotes, and the *)
(* stored rows a filter selects.                                           *)
(***************************************************************************)
ListOps == {"authors.findAll", "books.findAll"}

\* The integer a page or limit text denotes; absent, the default d.
Denoted(text, d) ==
    CASE text = Undef -> d
      [] text = "0" -> 0
      [] text = "1" -> 1
      [] text = "2" -> 2
      [] text = "-1" -> 0 - 1

\* Texts that denote a positive integer, and absence.
PositiveOrAbsent == {Undef, "1", "2"}

\* The stored rows a list request asks for: the text filter "N" selects the
\* names and titles in which the letter n occurs, the author filter the Books
\* of that author.
Matching(r) ==
    IF r.op = "authors.findAll"
    THEN {a \in authors : r.dto.firstName = "N" => a.first_name = "Ann"}
    ELSE {b \in books :
            /\ r.dto.title = "N" => b.title = "Dune"
            /\ r.dto.authorId # Undef => b.author_id = r.dto.authorId}

\* A list request whose author filter is absent or a well-formed UUID.
AuthorFilterWellFormed(r) ==
    r.op = "books.findAll" =>
        (r.dto.authorId = Undef \/ r.dto.authorId \notin MalformedIds)

Min(a, b) == IF a < b THEN a ELSE b
Max(a, b) == IF a > b THEN a ELSE b

\* C13: for page >= 1 and limit >= 1 (absent: 1 and 10), findAll of either
\* service returns exactly the records at positions (page-1)*limit through
\* (page-1)*limit + limit - 1 of the matching records ordered by createdAt
\* descending.
C13_WindowOfOrderedList ==
    [][LET r == reqs'["p"]
       IN (/\ r.op \in ListOps
           /\ r.dto.page \in PositiveOrAbsent
           /\ r.dto.limit \in PositiveOrAbsent
           /\ AuthorFilterWellFormed(r))
          => /\ r.status = "OK"
             /\ LET page == Denoted(r.dto.page, 1)
                    limit == Denoted(r.dto.limit, 10)
                    first == (page - 1) * limit
                    rows == Matching(r)
                    data == Get(r.ret).data
                IN /\ Len(data)
                        = Max(0, Min(limit, Cardinality(rows) - first))
                   /\ \A i \in 1..Len(data) :
                         \E x \in rows :
                            /\ x.id = data[i].id
                            /\ x.created_at = data[i].createdAt
                            /\ Cardinality({y \in rows :
                                   y.created_at > x.created_at})
                                 = first + i - 1]_vars

C13_Witness ==
    /\ Last.op = "books.findAll"
    /\ Last.dto.page = "2"
    /\ Last.dto.limit = "1"
    /\ Last.dto.title = Undef
    /\ Last.dto.authorId = Undef
    /\ Last.status = "OK"
    /\ Cardinality(books) = 3
    /\ Len(Get(Last.ret).data) = 1
    /\ \E b \in books :
          /\ b.id = Get(Last.ret).data[1].id
          /\ Cardinality({y \in books : y.created_at > b.created_at}) = 1

\* C14: the total of findAll is the number of all stored records matching
\* the filters, whatever the page and limit; for a page whose offset is at or
\* beyond that number findAll succeeds with no data and the same total.
C14_TotalIndependentOfWindow ==
    [][LET r == reqs'["p"]
       IN (/\ r.op \in ListOps
           /\ r.dto.page # "-1"
           /\ AuthorFilterWellFormed(r))
          => /\ r.status = "OK"
             /\ Get(r.ret).meta.total = Cardinality(Matching(r))
             /\ (/\ r.dto.page \in PositiveOrAbsent
                 /\ r.dto.limit \in PositiveOrAbsent
                 /\ (Denoted(r.dto.page, 1) - 1) * Denoted(r.dto.limit, 10)
                       >= Cardinality(Matching(r)))
                => Get(r.ret).data = <<>>]_vars

C14_Witness ==
    /\ Last.op = "authors.findAll"
    /\ Last.dto.page = "2"
    /\ Last.dto.limit = "1"
    /\ Last.dto.firstName = "N"
    /\ Last.status = "OK"
    /\ Cardinality(authors) = 2
    /\ Get(Last.ret).meta.total = 1
    /\ Get(Last.ret).data = <<>>

\* C15: the envelope of both controllers has meta.total equal to the
\* service's total, meta.page and meta.limit equal to the values of the
\* request (1 and 10 when absent), and meta.totalPages = ceil(total / limit):
\* 3 for total 23 and limit 10, 0 for total 0.
C15_Envelope ==
    [][LET r == reqs'["p"]
       IN (/\ r.op \in ListOps
           /\ r.status = "OK"
           /\ r.dto.page \in PositiveOrAbsent \cup {"0"}
           /\ r.dto.limit \in PositiveOrAbsent)
          => LET meta == Get(r.ret).meta
                 limit == Denoted(r.dto.limit, 10)
                 service == FindAll(NewRequest(r.op, Undef, r.dto),
                                    Db, FALSE).r
             IN /\ meta.total = Get(service.ret).total
                /\ Get(r.ret).data = Get(service.ret).data
                /\ meta.page = Num(Denoted(r.dto.page, 1))
                /\ meta.limit = Num(limit)
                /\ IsFinite(meta.totalPages)
                /\ meta.totalPages.n * limit >= meta.total
                /\ (meta.totalPages.n - 1) * limit < meta.total
                /\ meta.total = 0 => meta.totalPages = Num(0)
                /\ MathCeilDiv(23, ControllerLimit(r.dto))
                      = Num(CASE limit = 10 -> 3 [] limit = 2 -> 12
                              [] limit = 1 -> 23)]_vars

C15_Witness ==
    /\ Last.op = "books.findAll"
    /\ Last.status = "OK"
    /\ Last.dto.limit = "2"
    /\ Last.dto.page = Undef
    /\ Get(Last.ret).meta.total = 3
    /\ Get(Last.ret).meta.totalPages = Num(2)
    /\ Get(Last.ret).meta.page = Num(1)

\* C16: a list request with limit "0", or a limit that does not parse to a
\* positive integer, does not fail; the service uses the window size 10, and
\* meta.totalPages is a finite non-negative integer.
C16_ZeroLimitNormalised ==
    [][LET r == reqs'["p"]
       IN (/\ r.op \in ListOps
           /\ r.dto.limit \in {"0", "abc"}
           /\ r.dto.page \in PositiveOrAbsent
           /\ AuthorFilterWellFormed(r))
          => /\ r.status = "OK"
             /\ Len(Get(r.ret).data)
                  = Max(0, Min(10, Cardinality(Matching(r))
                                     - (Denoted(r.dto.page, 1) - 1) * 10))
             /\ IsFinite(Get(r.ret).meta.totalPages)
             /\ Get(r.ret).meta.totalPages.n >= 0]_vars

\* C17: for every list request, the limit the service computes its window
\* with is the limit the controller reports as meta.limit and divides the
\* total by; for limit "0" both are 10.
C17_ServiceAndControllerLimitAgree ==
    [][LET r == reqs'["p"]
       IN (r.op \in ListOps /\ r.status = "OK")
          => /\ Get(r.ret).meta.limit = Num(FindAllLimit(r.dto))
             /\ ControllerLimit(r.dto) = Num(FindAllLimit(r.dto))
             /\ r.dto.limit = "0" => Get(r.ret).meta.limit = Num(10)]_vars

\* C18: a list request with a negative page is rejected with a client error
\* before the service computes an offset or issues a datastore query.
C18_NegativePageRejectedEarly ==
    [][LET r == reqs'["p"]
       IN (/\ r.op \in ListOps
           /\ r.dto.page = "-1"
           /\ AuthorFilterWellFormed(r))
          => /\ r.status = BadRequest
             /\ r.trips = 0]_vars

C20_ReturnedBookHasAuthor ==
    [][LET r == reqs'["p"]
       IN /\ (/\ r.op \in {"books.create", "books.findOne", "books.update"}
              /\ r.status = "OK")
             => /\ IsSome(Get(r.ret).author)
                /\ Get(Get(r.ret).author).id = Get(r.ret).authorId
          /\ (r.op = "books.findAll" /\ r.status = "OK")
             => \A i \in 1..Len(Get(r.ret).data) :
                   /\ IsSome(Get(r.ret).data[i].author)
                   /\ Get(Get(r.ret).data[i].author).id
                         = Get(r.ret).data[i].authorId]_vars

\* C21: Author remove leaves the Books alone: it changes no Book, and the
\* remove of a stored Author succeeds and deletes that Author also when stored
\* Books refer to it, which keep their author_id; Book remove changes no
\* Author.
C21_RemoveDoesNotCascade ==
    [][LET r == reqs'["p"]
       IN /\ r.op = "authors.remove"
             => /\ books' = books
                /\ nextBook' = nextBook
                /\ (\E a \in authors : a.id = r.id)
                      => /\ r.status = "OK"
                         /\ authors' = {a \in authors : a.id # r.id}
          /\ r.op = "books.remove"
             => /\ authors' = authors
                /\ nextAuthor' = nextAuthor]_vars

C21_Witness ==
    /\ Last.op = "authors.remove"
    /\ Last.status = "OK"
    /\ \E b \in books : b.author_id = Last.id
    /\ ~ \E a \in authors : a.id = Last.id

\* C22: the checks of a Book request run in a fixed order and the first one
\* that fails decides the outcome, no later round trip being made.  Book
\* create: the Author lookup, then the ISBN lookup, then the insert; a create
\* whose Author is missing fails with NotFoundException after one round trip
\* also when its isbn is stored.  Book update: the id shape, then the Book
\* lookup, then the lookup of the new Author, then the ISBN lookup among the
\* other Books, then the write.
C22_FirstFailureWins ==
    [][LET r == reqs'["p"]
           authorMissing == ~ \E a \in authors : a.id = r.dto.authorId
           checked == IF r.dto.authorId # Undef THEN 1 ELSE 0
       IN /\ r.op = "books.create"
             => IF authorMissing
                THEN /\ r.status = NotFound
                     /\ r.msg = "Author not found"
                     /\ r.trips = 1
                     /\ r.writes = 0
                     /\ books' = books
                ELSE IF \E b \in books : b.isbn = r.dto.isbn
                THEN /\ r.status = BadRequest
                     /\ r.msg = "ISBN already exists"
                     /\ r.trips = 2
                     /\ r.writes = 0
                     /\ books' = books
                ELSE /\ r.status = "OK"
                     /\ r.trips = 3
                     /\ r.writes = 1
          /\ r.op = "books.update"
             => IF r.id \in MalformedIds
                THEN /\ r.status = BadRequest
                     /\ r.msg = "Invalid UUID format"
                     /\ r.trips = 0
                     /\ books' = books
                ELSE IF ~ \E b \in books : b.id = r.id
                THEN /\ r.status = NotFound
                     /\ r.msg = "Book not found"
                     /\ r.trips = 1
                     /\ books' = books
                ELSE IF r.dto.authorId # Undef /\ authorMissing
                THEN /\ r.status = NotFound
                     /\ r.msg = "Author not found"
                     /\ r.trips = 2
                     /\ r.writes = 0
                     /\ books' = books
                ELSE IF /\ r.dto.isbn # Undef
                        /\ \E b \in books :
                              b.isbn = r.dto.isbn /\ b.id # r.id
                THEN /\ r.status = BadRequest
                     /\ r.msg = "ISBN already exists"
                     /\ r.trips = 2 + checked
                     /\ r.writes = 0
                     /\ books' = books
                ELSE r.status = "OK"]_vars

C22_Witness ==
    /\ Last.op = "books.update"
    /\ Last.dto.authorId = GhostId
    /\ Last.dto.isbn = Isbn1
    /\ \E b \in books : b.id = Last.id
    /\ \E b \in books : b.isbn = Isbn1 /\ b.id # Last.id
    /\ Last.status = NotFound
    /\ Last.msg = "Author not found"
    /\ Last.trips = 2

(***************************************************************************)
(* Properties of SpecRace: a step is one round trip of one caller (or one  *)
(* list request); reqs[p] is the request before the round trip, reqs'[p]   *)
(* after it.                                                               *)
(***************************************************************************)
\* C23: a Book create that has passed its ISBN lookup inserts its Book and
\* succeeds whatever has been stored since the lookup; so two creates with
\* one isbn whose lookups both ran before either insert both succeed, neither
\* fails with BadRequestException, and two Books with one isbn are stored.
C23_InsertAfterLookupSucceeds ==
    [][\A p \in Procs :
          (/\ reqs[p].op = "books.create"
           /\ reqs[p].pc = "insert"
           /\ reqs'[p].pc = "done")
          => /\ reqs'[p].status = "OK"
             /\ reqs'[p].trips = 3
             /\ \E b \in books' \ books :
                   /\ b.isbn = reqs[p].dto.isbn
                   /\ books' = books \cup {b}]_vars

C23_Witness ==
    /\ \A p \in Procs :
          /\ reqs[p].op = "books.create"
          /\ reqs[p].status = "OK"
    /\ reqs["p"].dto.isbn = reqs["q"].dto.isbn
    /\ \E x \in books, y \in books :
          /\ x.id # y.id
          /\ x.isbn = y.isbn
          /\ x.isbn = reqs["p"].dto.isbn

\* C24: a remove (of an Author or a Book) that has passed its existence
\* check succeeds whether or not the row is still stored, and leaves the
\* store without that row and with every other row; so two removes of one id
\* whose checks both ran before either delete both succeed, neither reports
\* NotFoundException, and the entity is absent afterwards.
C24_DeleteAfterCheckSucceeds ==
    [][\A p \in Procs :
          (/\ reqs[p].op \in {"authors.remove", "books.remove"}
           /\ reqs[p].pc = "delete"
           /\ reqs'[p].pc = "done")
          => /\ reqs'[p].status = "OK"
             /\ reqs'[p].trips = 2
             /\ IF reqs[p].op = "authors.remove"
                THEN /\ authors' = {a \in authors : a.id # reqs[p].id}
                     /\ books' = books
                ELSE /\ books' = {b \in books : b.id # reqs[p].id}
                     /\ authors' = authors]_vars

C24_Witness ==
    /\ \A p \in Procs :
          /\ reqs[p].op = "books.remove"
          /\ reqs[p].status = "OK"
          /\ reqs[p].trips = 2
    /\ reqs["p"].id = reqs["q"].id
    /\ ~ \E b \in books : b.id = reqs["p"].id

\* The stored Books a list query of RaceQueries asks for.
RaceMatching(query) ==
    {b \in books :
        /\ query.title = "N" => b.title = "Dune"
        /\ query.genre = "E" => b.genre = "epic"
        /\ query.authorId # Undef => b.author_id = query.authorId}

\* C25: in every response of Book findAll (of either version of the
\* service), total is the number of stored Books that match the filters
\* (title, genre, authorId) in the state the data were read from, every
\* record of data is one of them, and data is not longer than total, also
\* while a create, update or remove of another caller is between two of its
\* round trips.
C25_CountMatchesData ==
    [][LET r == reqs'["q"]
       IN (/\ r.op \in {"books.findAll", TwoQueryOp}
           /\ r.pc = "done"
           /\ r # reqs["q"])
          => /\ r.status = "OK"
             /\ Get(r.ret).meta.total = Cardinality(RaceMatching(r.dto))
             /\ Len(Get(r.ret).data) <= Get(r.ret).meta.total
             /\ Len(Get(r.ret).data)
                   = Min(Cardinality(RaceMatching(r.dto)),
                         Denoted(r.dto.limit, 10))
             /\ \A i \in 1..Len(Get(r.ret).data) :
                   \E b \in RaceMatching(r.dto) :
                      b.id = Get(r.ret).data[i].id]_vars

\* C30: the write of an update (of an Author or a Book, with a non-empty
\* partial) whose entity was removed after the update's existence check
\* changes nothing: the entity stays absent, no row is stored or changed, and
\* the update ends with BadRequestException and returns no record.
C30_UpdateAfterRemoveFails ==
    [][\A p \in Procs :
          (/\ reqs[p].op \in {"authors.update", "books.update"}
           /\ reqs[p].pc = "write"
           /\ reqs'[p].pc = "done"
           /\ IF reqs[p].op = "authors.update"
              THEN ~ \E a \in authors : a.id = reqs[p].id
              ELSE ~ \E b \in books : b.id = reqs[p].id)
          => /\ reqs'[p].status = BadRequest
             /\ reqs'[p].msg = IF reqs[p].op = "authors.update"
                               THEN Failed("update author", NoRowsMessage)
                               ELSE Failed("update book", NoRowsMessage)
             /\ reqs'[p].ret = None
             /\ authors' = authors
             /\ books' = books]_vars

C30_Witness ==
    /\ reqs["p"].op = "books.update"
    /\ reqs["p"].status = BadRequest
    /\ reqs["p"].msg = Failed("update book", NoRowsMessage)
    /\ reqs["q"].op = "books.remove"
    /\ reqs["q"].status = "OK"
    /\ reqs["q"].id = reqs["p"].id
    /\ ~ \E b \in books : b.id = reqs["p"].id

\* C28: a Book update that writes made, before the write, the lookup of
\* the Book, the Author lookup when its partial supplies an authorId and the
\* ISBN lookup among the other Books when it supplies an isbn, for every
\* supplied value that is not undefined, the empty string included: the
\* round trips of the request are those lookups and the write.
C28_WrittenValuesWereChecked ==
    [][LET r == reqs'["p"]
           authorCheck == IF r.dto.authorId # Undef THEN 1 ELSE 0
           isbnCheck == IF r.dto.isbn # Undef THEN 1 ELSE 0
       IN (/\ r.op = "books.update"
           /\ r.writes = 1)
          => /\ r.trips = 1 + authorCheck + isbnCheck + 1
             /\ r.dto.authorId # Undef => validateUUID(r.dto.authorId)]_vars

\* C29: for every list request that succeeds, meta.page is the page the
\* service computed its offset with; for page "0" both are the same page.
C29_ServiceAndControllerPageAgree ==
    [][LET r == reqs'["p"]
       IN (r.op \in ListOps /\ r.status = "OK")
          => /\ Get(r.ret).meta.page = Num(FindAllPage(r.dto))
             /\ ControllerPage(r.dto) = Num(FindAllPage(r.dto))]_vars

(***************************************************************************)
(* Properties of SpecFault: a step handles one request; reqs'["p"].errs    *)
(* are the round trips of it at which the datastore reported an error.     *)
(***************************************************************************)
\* The round trips of a request none of whose checks fails: one call for
\* each lookup and one for the write, in the order of the code.
StraightTrips(r) ==
    CASE r.op \in {"authors.create", "authors.findOne", "books.findOne",
                   "authors.findAll", "books.findAll"} -> 1
      [] r.op \in {"authors.update", "authors.remove", "books.remove"} -> 2
      [] r.op = "books.create" -> 3
      [] r.op = "books.update" ->
            2 + (IF r.dto.authorId # Undef THEN 1 ELSE 0)
              + (IF r.dto.isbn # Undef THEN 1 ELSE 0)

\* The round trip that is the ISBN lookup of a Book create or update; 0 when
\* the request has none.
IsbnLookupTrip(r) ==
    CASE r.op = "books.create" -> 2
      [] r.op = "books.update" /\ r.dto.isbn # Undef ->
            2 + (IF r.dto.authorId # Undef THEN 1 ELSE 0)
      [] OTHER -> 0

\* Requests that end with a write, and what the message of a failed write
\* says was attempted.
WriteOps == {"authors.create", "authors.update", "authors.remove",
             "books.create", "books.update", "books.remove"}

Attempted(op) ==
    CASE op = "authors.create" -> "create author"
      [] op = "authors.update" -> "update author"
      [] op = "authors.remove" -> "delete author"
      [] op = "authors.findAll" -> "fetch authors"
      [] op = "books.create" -> "create book"
      [] op = "books.update" -> "update book"
      [] op = "books.remove" -> "delete book"
      [] op = "books.findAll" -> "fetch books"

EmptyPartial(r) ==
    /\ r.op \in {"authors.update", "books.update"}
    /\ \A f \in DOMAIN r.dto : r.dto[f] = Undef

\* C26: the kind of error by phase.  findOne with a well-formed id throws
\* NotFoundException when its lookup reports an error or returns no row, and
\* returns otherwise.  A request whose insert, update or delete write
\* reports an error throws BadRequestException with 'Failed to ...' and the
\* message of the datastore, and the store is as before; so does a list
\* request whose query reports an error.  No request returns after its
\* write reported an error.
C26_ErrorKindByPhase ==
    [][LET r == reqs'["p"]
       IN /\ (r.op \in {"authors.findOne", "books.findOne"}
               /\ validateUUID(r.id))
             => IF \/ 1 \in r.errs
                   \/ ~ \E x \in (IF r.op = "authors.findOne" THEN authors
                                  ELSE books) : x.id = r.id
                THEN /\ r.status = NotFound
                     /\ r.msg = IF r.op = "authors.findOne"
                                THEN "Author not found" ELSE "Book not found"
                ELSE r.status = "OK"
          /\ (/\ r.op \in WriteOps
              /\ ~EmptyPartial(r)
              /\ r.trips = StraightTrips(r)
              /\ r.trips \in r.errs)
             => /\ r.status = BadRequest
                /\ r.msg = Failed(Attempted(r.op), FaultMessage)
                /\ r.writes = 0
                /\ authors' = authors
                /\ books' = books
          /\ (r.op \in ListOps /\ 1 \in r.errs)
             => /\ r.status = BadRequest
                /\ r.msg = Failed(Attempted(r.op), FaultMessage)
          /\ (r.op \in WriteOps /\ r.status = "OK" /\ r.writes > 0)
             => r.trips \notin r.errs]_vars

C26_Witness ==
    /\ Last.op = "books.update"
    /\ Last.errs = {4}
    /\ Last.trips = 4
    /\ Last.status = BadRequest
    /\ Last.msg = Failed("update book", FaultMessage)
    /\ \E b \in books : b.id = Last.id /\ b.isbn # Last.dto.isbn

====
